---- MODULE Spec2Model ----
(***************************************************************************)
(* Model of the game economy server (src/server.py).                       *)
(*                                                                         *)
(* All durable state lives in Redis; every request handler is a sequence   *)
(* of Redis commands.  One Redis command (or one Lua script) is one atomic *)
(* step of the model; local computation (comparisons, early returns) is    *)
(* folded into the step of the command whose reply it consumes.  Reads of  *)
(* keys that no modelled handler writes (item:* hashes, usernames) are     *)
(* folded into the neighbouring step.  Several request workers run the     *)
(* handlers concurrently.                                                  *)
(***************************************************************************)
EXTENDS Integers, Sequences, FiniteSets, TLC

VARIABLES
    gold,       \* player:<id> hash, field gold
    lbGold,     \* zset leaderboard:gold   (score per player)
    clicks,     \* clicks:<id> counter
    lbClicks,   \* zset leaderboard:clicks (score per player)
    stock,      \* stock:<item> counter
    inventory,  \* list inventory:<id>
    auction,    \* auction:<ms> hashes
    active,     \* zset auctions:active (members)
    rate,       \* zset rate:clicks:<id> (recorded click timestamps)
    cooldown,   \* cooldown:<id> marker: expiry time, 0 when absent
    combo,      \* combo:<id> value and expiry time
    stream,     \* lengths of stream:clicks and stream:auction:bids
    now,        \* wall clock, in model time units
    nextUid,    \* source of fresh unique_id values
    req,        \* per worker: the request being handled and its locals
    started,    \* number of requests started so far (bounds the run)
    escrow,     \* history: per auction, gold debited from minus refunded to bidders
    minted,     \* history: number of item instances created by the shop
    listed,     \* history: auction ids handed out by auction_create
    settled,    \* history: auction ids whose buyout has completed
    pre,        \* history: the store at the start of the request (single worker)
    clickLog    \* history: per player, the click requests that read the clock

vars == <<gold, lbGold, clicks, lbClicks, stock, inventory, auction, active,
          rate, cooldown, combo, stream, now, nextUid, req, started, escrow,
          minted, listed, settled, pre, clickLog>>

clickState == <<clicks, lbClicks, rate, cooldown, combo>>
hist == <<escrow, minted, listed, settled, pre, clickLog>>

\* ---------------------------------------------------------------- bounds
MaxRequests == 3
MaxTime == 3
\* how far the clock runs where only clicks and leaderboard queries are made
MaxClock == 4
\* The click configuration (config:click_cooldown_ms, config:click_window_ms,
\* config:click_max_hits, which the admin endpoints set) and the lifetime of
\* the combo key, on the scale of the model's clock.
CooldownMs == 2
WindowMs == 4
MaxHits == 2
ComboTtl == 3

\* ------------------------------------------------------- program constants
StartGold == 1000
InitStock == 100
PotionPrice == 50
SwordGoldPrice == 2000
StreamMaxLen == 1000
BaseReward == 10
ComboBonusCap == 50

Players == {"p1", "p2", "p3"}
Workers == {"w1", "w2", "w3"}
Items == {"potion_health", "sword_gold"}
AuctionIds == 0..MaxTime

\* inputs the clients send
Quantities == {-1, 1, 2, 101}
StartingPrices == {-2000, 50}
BidAmounts == {40, 60, 70, 950}

\* Auction ids a client names: every id handed out so far and one that never
\* was (ids never handed out are interchangeable).
KnownIds ==
    listed \cup (IF AuctionIds \ listed = {} THEN {}
                 ELSE {CHOOSE a \in AuctionIds \ listed :
                          \A b \in AuctionIds \ listed : a <= b})

Price(item) == IF item = "potion_health" THEN PotionPrice ELSE SwordGoldPrice

\* ------------------------------------------------------------- helpers
RECURSIVE SumOver(_, _)
SumOver(S, f) ==
    IF S = {} THEN 0
    ELSE LET x == CHOOSE y \in S : TRUE IN f[x] + SumOver(S \ {x}, f)

DelMarker == [item_id |-> "__DEL__", uid |-> 0]

NoAuction == [exists |-> FALSE, full |-> FALSE, seller |-> "", item_id |-> "",
              uid |-> 0, current_price |-> 0, highest_bidder |-> ""]

Idle == [op |-> "none", pc |-> "idle", pid |-> "", item |-> "", qty |-> 0,
         aid |-> 0, amt |-> 0, uid |-> 0, idx |-> 0, price |-> 0, other |-> "",
         g1 |-> 0, g2 |-> 0, t |-> 0, res |-> "", lb |-> <<>>,
         fault |-> FALSE]

Store == [gold |-> gold, lbGold |-> lbGold, clicks |-> clicks,
          lbClicks |-> lbClicks, stock |-> stock, inventory |-> inventory,
          auction |-> auction, active |-> active, escrow |-> escrow,
          rate |-> rate, cooldown |-> cooldown, combo |-> combo]

Quiescent == \A w \in Workers : req[w].pc \in {"idle", "done"}

CanStart(w) == req[w].pc \in {"idle", "done"} /\ started < MaxRequests

Finish(r, result) == [r EXCEPT !.pc = "done", !.res = result]

\* ------------------------------------------------------------ initial state
\* init_game_data seeds the catalogue; player_login creates each player with
\* gold 1000 and both leaderboard entries.
InitCommon ==
    /\ clicks = [p \in Players |-> 0]
    /\ lbClicks = [p \in Players |-> 0]
    /\ auction = [a \in AuctionIds |-> NoAuction]
    /\ active = {}
    /\ rate = [p \in Players |-> {}]
    /\ cooldown = [p \in Players |-> 0]
    /\ combo = [p \in Players |-> [val |-> 0, exp |-> 0]]
    /\ stream = [clicks |-> 0, bids |-> 0]
    /\ now = 0
    /\ req = [w \in Workers |-> Idle]
    /\ started = 0
    /\ escrow = [a \in AuctionIds |-> 0]
    /\ listed = {}
    /\ settled = {}
    /\ clickLog = [p \in Players |-> <<>>]

Init ==
    /\ InitCommon
    /\ gold = [p \in Players |-> StartGold]
    /\ lbGold = [p \in Players |-> StartGold]
    /\ stock = [i \in Items |-> InitStock]
    /\ inventory = [p \in Players |-> <<>>]
    /\ nextUid = 1
    /\ minted = 0
    /\ pre = Store

\* The shop down to its last unit of every item.
InitLastUnit ==
    /\ InitCommon
    /\ gold = [p \in Players |-> StartGold]
    /\ lbGold = [p \in Players |-> StartGold]
    /\ stock = [i \in Items |-> 1]
    /\ inventory = [p \in Players |-> <<>>]
    /\ nextUid = 1
    /\ minted = 0
    /\ pre = Store

\* p1 has bought two potions (shop_buy p1 potion_health 2 from Init).
InitTrader ==
    /\ InitCommon
    /\ gold = [p \in Players |-> IF p = "p1" THEN StartGold - 2 * PotionPrice
                                             ELSE StartGold]
    /\ lbGold = gold
    /\ stock = [i \in Items |-> IF i = "potion_health" THEN InitStock - 2
                                                       ELSE InitStock]
    /\ inventory = [p \in Players |->
                      IF p = "p1" THEN <<[item_id |-> "potion_health", uid |-> 1],
                                         [item_id |-> "potion_health", uid |-> 2]>>
                                  ELSE <<>>]
    /\ nextUid = 3
    /\ minted = 2
    /\ pre = Store

\* ------------------------------------------------------------- shop_buy

StartShopBuy(w, snap) ==
    /\ CanStart(w)
    /\ \E p \in Players, i \in Items, q \in Quantities :
          req' = [req EXCEPT ![w] = [Idle EXCEPT !.op = "shop_buy", !.pc = "sb_script",
                                                 !.pid = p, !.item = i, !.qty = q]]
    /\ started' = started + 1
    /\ pre' = IF snap THEN Store ELSE pre
    /\ UNCHANGED <<gold, lbGold, stock, inventory, auction, active, clickState,
                   stream, now, nextUid, escrow, minted, listed, settled,
                   clickLog>>

\* (mutation) the script without its stock check
ShopScriptResultNoStockCheck(st, g, q, item) ==
    IF g < Price(item) * q THEN "InsufficientFunds" ELSE "ok"

\* The Lua purchase script: the reply it computes from stock and gold.
ShopScriptResult(st, g, q, item) ==
    IF st < q THEN "OutOfStock"
    ELSE IF g < Price(item) * q THEN "InsufficientFunds"
    ELSE "ok"

\* (mutation) the script taking the units off the stock before it checks funds
ShopScriptStockFirst(w) ==
    LET r == req[w]
        res == ShopScriptResult(stock[r.item], gold[r.pid], r.qty, r.item)
        newGold == gold[r.pid] - Price(r.item) * r.qty
    IN
    /\ r.pc = "sb_script"
    /\ stock' = [stock EXCEPT ![r.item] = IF res = "OutOfStock" THEN @ ELSE @ - r.qty]
    /\ IF res = "ok"
       THEN /\ gold' = [gold EXCEPT ![r.pid] = newGold]
            /\ lbGold' = [lbGold EXCEPT ![r.pid] = newGold]
            /\ req' = [req EXCEPT ![w] =
                        IF r.qty > 0
                        THEN [r EXCEPT !.pc = "sb_push", !.res = "ok", !.idx = r.qty,
                                       !.g1 = newGold]
                        ELSE [r EXCEPT !.pc = "done", !.res = "ok", !.g1 = newGold]]
       ELSE /\ req' = [req EXCEPT ![w] = Finish(r, res)]
            /\ UNCHANGED <<gold, lbGold>>
    /\ UNCHANGED <<inventory, auction, active, clickState, stream, now, nextUid,
                   started, hist>>

ShopScript(w) ==
    LET r == req[w]
        res == ShopScriptResult(stock[r.item], gold[r.pid], r.qty, r.item)
        newGold == gold[r.pid] - Price(r.item) * r.qty
    IN
    /\ r.pc = "sb_script"
    /\ IF res = "ok"
       THEN /\ gold' = [gold EXCEPT ![r.pid] = newGold]
            /\ stock' = [stock EXCEPT ![r.item] = @ - r.qty]
            /\ lbGold' = [lbGold EXCEPT ![r.pid] = newGold]
            /\ req' = [req EXCEPT ![w] =
                        IF r.qty > 0
                        THEN [r EXCEPT !.pc = "sb_push", !.res = "ok", !.idx = r.qty,
                                       !.g1 = newGold]
                        ELSE [r EXCEPT !.pc = "done", !.res = "ok", !.g1 = newGold]]
       ELSE /\ req' = [req EXCEPT ![w] = Finish(r, res)]
            /\ UNCHANGED <<gold, stock, lbGold>>
    /\ UNCHANGED <<inventory, auction, active, clickState, stream, now, nextUid,
                   started, hist>>

\* One rpush of the loop over range(quantity).
ShopPush(w) ==
    LET r == req[w] IN
    /\ r.pc = "sb_push"
    /\ inventory' = [inventory EXCEPT ![r.pid] =
                        Append(@, [item_id |-> r.item, uid |-> nextUid])]
    /\ nextUid' = nextUid + 1
    /\ minted' = minted + 1
    /\ req' = [req EXCEPT ![w] =
                 IF r.idx = 1 THEN [r EXCEPT !.pc = "done", !.idx = 0]
                 ELSE [r EXCEPT !.idx = r.idx - 1]]
    /\ UNCHANGED <<gold, lbGold, stock, auction, active, clickState, stream, now,
                   started, escrow, listed, settled, pre, clickLog>>

\* ------------------------------------------------------------ the clock
TickTo(limit) ==
    /\ now < limit
    /\ now' = now + 1
    /\ UNCHANGED <<gold, lbGold, stock, inventory, auction, active, clickState,
                   stream, nextUid, req, started, hist>>

Tick == TickTo(MaxTime)

\* -------------------------------------------------------- auction_create
StartCreate(w, snap) ==
    /\ CanStart(w)
    /\ \E p \in Players, u \in 1..(nextUid - 1), sp \in StartingPrices :
          req' = [req EXCEPT ![w] = [Idle EXCEPT !.op = "auction_create",
                                                 !.pc = "ac_lrange", !.pid = p,
                                                 !.uid = u, !.amt = sp]]
    /\ started' = started + 1
    /\ pre' = IF snap THEN Store ELSE pre
    /\ UNCHANGED <<gold, lbGold, stock, inventory, auction, active, clickState,
                   stream, now, nextUid, escrow, minted, listed, settled,
                   clickLog>>

\* The scan of the lrange reply: the 1-based index of the first row whose
\* unique_id matches, 0 when none does, -1 when json.loads meets the
\* "__DEL__" marker first (it raises).
RECURSIVE ScanFrom(_, _, _)
ScanFrom(inv, u, i) ==
    IF i > Len(inv) THEN 0
    ELSE IF inv[i] = DelMarker THEN -1
    ELSE IF inv[i].uid = u THEN i
    ELSE ScanFrom(inv, u, i + 1)

FindItem(inv, u) == ScanFrom(inv, u, 1)

AcLrange(w) ==
    LET r == req[w]
        i == FindItem(inventory[r.pid], r.uid)
    IN
    /\ r.pc = "ac_lrange"
    /\ req' = [req EXCEPT ![w] =
                 IF i = -1 THEN Finish(r, "error")
                 ELSE IF i = 0 THEN Finish(r, "ItemNotFound")
                 ELSE [r EXCEPT !.pc = "ac_lset", !.idx = i,
                                !.item = inventory[r.pid][i].item_id]]
    /\ UNCHANGED <<gold, lbGold, stock, inventory, auction, active, clickState,
                   stream, now, nextUid, started, hist>>

\* LSET idx "__DEL__": Redis refuses an index past the end of the list.
AcLset(w) ==
    LET r == req[w] IN
    /\ r.pc = "ac_lset"
    /\ IF r.idx > Len(inventory[r.pid])
       THEN /\ req' = [req EXCEPT ![w] = Finish(r, "error")]
            /\ UNCHANGED inventory
       ELSE /\ inventory' = [inventory EXCEPT ![r.pid][r.idx] = DelMarker]
            /\ req' = [req EXCEPT ![w].pc = "ac_lrem"]
    /\ UNCHANGED <<gold, lbGold, stock, auction, active, clickState, stream, now,
                   nextUid, started, hist>>

\* LREM key 1 "__DEL__": drops the first marker from the head, if any.
RECURSIVE RemoveFirst(_, _)
RemoveFirst(inv, x) ==
    IF inv = <<>> THEN <<>>
    ELSE IF Head(inv) = x THEN Tail(inv)
    ELSE <<Head(inv)>> \o RemoveFirst(Tail(inv), x)

AcLrem(w) ==
    LET r == req[w] IN
    /\ r.pc = "ac_lrem"
    /\ inventory' = [inventory EXCEPT ![r.pid] = RemoveFirst(@, DelMarker)]
    /\ req' = [req EXCEPT ![w].pc = "ac_newid"]
    /\ UNCHANGED <<gold, lbGold, stock, auction, active, clickState, stream, now,
                   nextUid, started, hist>>

\* auction_id = f"auction:{int(time.time() * 1000)}"
AcNewId(w) ==
    LET r == req[w] IN
    /\ r.pc = "ac_newid"
    /\ req' = [req EXCEPT ![w] = [r EXCEPT !.pc = "ac_hset", !.aid = now]]
    /\ listed' = listed \cup {now}
    /\ UNCHANGED <<gold, lbGold, stock, inventory, auction, active, clickState,
                   stream, now, nextUid, started, escrow, minted, settled, pre,
                   clickLog>>

\* The hash written by auction_create; uid records which instance is escrowed.
NewAuction(r) ==
    [exists |-> TRUE, full |-> TRUE, seller |-> r.pid, item_id |-> r.item,
     uid |-> r.uid, current_price |-> r.amt, highest_bidder |-> ""]

AcHset(w) ==
    LET r == req[w] IN
    /\ r.pc = "ac_hset"
    /\ auction' = [auction EXCEPT ![r.aid] = NewAuction(r)]
    /\ req' = [req EXCEPT ![w].pc = "ac_zadd"]
    /\ UNCHANGED <<gold, lbGold, stock, inventory, active, clickState, stream, now,
                   nextUid, started, hist>>

AcZadd(w) ==
    LET r == req[w] IN
    /\ r.pc = "ac_zadd"
    /\ active' = active \cup {r.aid}
    /\ req' = [req EXCEPT ![w] = Finish(r, "ok")]
    /\ UNCHANGED <<gold, lbGold, stock, inventory, auction, clickState, stream, now,
                   nextUid, started, hist>>

\* ----------------------------------------------------------- auction_list
\* ids of auctions:active whose hash still exists
AuctionList == {a \in active : auction[a].exists}

\* ------------------------------------------------------------ auction_bid
StartBid(w, snap) ==
    /\ CanStart(w)
    /\ \E p \in Players, a \in KnownIds, amount \in BidAmounts :
          req' = [req EXCEPT ![w] = [Idle EXCEPT !.op = "auction_bid",
                                                 !.pc = "ab_exists", !.pid = p,
                                                 !.aid = a, !.amt = amount]]
    /\ started' = started + 1
    /\ pre' = IF snap THEN Store ELSE pre
    /\ UNCHANGED <<gold, lbGold, stock, inventory, auction, active, clickState,
                   stream, now, nextUid, escrow, minted, listed, settled,
                   clickLog>>

AbExists(w) ==
    LET r == req[w] IN
    /\ r.pc = "ab_exists"
    /\ req' = [req EXCEPT ![w] =
                 IF auction[r.aid].exists THEN [r EXCEPT !.pc = "ab_hgetall"]
                 ELSE Finish(r, "NotFound")]
    /\ UNCHANGED <<gold, lbGold, stock, inventory, auction, active, clickState,
                   stream, now, nextUid, started, hist>>

\* hgetall, then the price comparison.  A hash deleted since the exists check
\* reads as {} and auction_data["current_price"] raises KeyError.
BidPriceCheck(amount, price) == IF amount <= price THEN "BidTooLow" ELSE "ok"

AbHgetall(w) ==
    LET r == req[w]
        a == auction[r.aid]
    IN
    /\ r.pc = "ab_hgetall"
    /\ req' = [req EXCEPT ![w] =
                 IF ~a.exists THEN Finish(r, "error")
                 ELSE IF BidPriceCheck(r.amt, a.current_price) # "ok"
                      THEN Finish(r, BidPriceCheck(r.amt, a.current_price))
                 ELSE [r EXCEPT !.pc = "ab_hget", !.price = a.current_price,
                                !.other = a.highest_bidder]]
    /\ UNCHANGED <<gold, lbGold, stock, inventory, auction, active, clickState,
                   stream, now, nextUid, started, hist>>

\* player_gold = int(r.hget(...)); if player_gold < bid_amount: reject
BidFundsCheck(g, amount) == IF g < amount THEN "InsufficientFunds" ELSE "ok"

AbHget(w) ==
    LET r == req[w] IN
    /\ r.pc = "ab_hget"
    /\ req' = [req EXCEPT ![w] =
                 IF BidFundsCheck(gold[r.pid], r.amt) # "ok"
                 THEN Finish(r, BidFundsCheck(gold[r.pid], r.amt))
                 ELSE IF r.other # "" THEN [r EXCEPT !.pc = "ab_refund"]
                 ELSE [r EXCEPT !.pc = "ab_debit"]]
    /\ UNCHANGED <<gold, lbGold, stock, inventory, auction, active, clickState,
                   stream, now, nextUid, started, hist>>

\* (mutation) the new bid given back instead of the old one
RefundAmountNewBid(r) == r.amt

\* The amount given back to the previous highest bidder: the price read.
RefundAmount(r) == r.price

\* hincrby player:<prev_bidder> gold current_price
AbRefund(w) ==
    LET r == req[w]
        g == gold[r.other] + RefundAmount(r)
    IN
    /\ r.pc = "ab_refund"
    /\ gold' = [gold EXCEPT ![r.other] = g]
    /\ escrow' = [escrow EXCEPT ![r.aid] = @ - RefundAmount(r)]
    /\ req' = [req EXCEPT ![w] = [r EXCEPT !.pc = "ab_refund_zadd", !.g1 = g]]
    /\ UNCHANGED <<lbGold, stock, inventory, auction, active, clickState, stream,
                   now, nextUid, started, minted, listed, settled, pre,
                   clickLog>>

\* zadd leaderboard:gold {prev_bidder: new_prev_gold}
AbRefundZadd(w) ==
    LET r == req[w] IN
    /\ r.pc = "ab_refund_zadd"
    /\ lbGold' = [lbGold EXCEPT ![r.other] = r.g1]
    /\ req' = [req EXCEPT ![w].pc = "ab_debit"]
    /\ UNCHANGED <<gold, stock, inventory, auction, active, clickState, stream, now,
                   nextUid, started, hist>>

\* hincrby player:<pid> gold -bid_amount
AbDebit(w) ==
    LET r == req[w]
        g == gold[r.pid] - r.amt
    IN
    /\ r.pc = "ab_debit"
    /\ gold' = [gold EXCEPT ![r.pid] = g]
    /\ escrow' = [escrow EXCEPT ![r.aid] = @ + r.amt]
    /\ req' = [req EXCEPT ![w] = [r EXCEPT !.pc = "ab_debit_zadd", !.g2 = g]]
    /\ UNCHANGED <<lbGold, stock, inventory, auction, active, clickState, stream,
                   now, nextUid, started, minted, listed, settled, pre,
                   clickLog>>

\* zadd leaderboard:gold {pid: new_gold}
AbDebitZadd(w) ==
    LET r == req[w] IN
    /\ r.pc = "ab_debit_zadd"
    /\ lbGold' = [lbGold EXCEPT ![r.pid] = r.g2]
    /\ req' = [req EXCEPT ![w].pc = "ab_hset"]
    /\ UNCHANGED <<gold, stock, inventory, auction, active, clickState, stream, now,
                   nextUid, started, hist>>

\* hset aid {current_price, highest_bidder, highest_bidder_name}.  On a key
\* deleted in the meantime HSET creates a hash holding only these fields.
BidWrite(a, r) ==
    IF a.exists
    THEN [a EXCEPT !.current_price = r.amt, !.highest_bidder = r.pid]
    ELSE [NoAuction EXCEPT !.exists = TRUE, !.current_price = r.amt,
                           !.highest_bidder = r.pid]

AbHset(w) ==
    LET r == req[w] IN
    /\ r.pc = "ab_hset"
    /\ auction' = [auction EXCEPT ![r.aid] = BidWrite(@, r)]
    /\ req' = [req EXCEPT ![w].pc = "ab_xadd"]
    /\ UNCHANGED <<gold, lbGold, stock, inventory, active, clickState, stream, now,
                   nextUid, started, hist>>

\* xadd stream:auction:bids ... maxlen=1000
StreamAppend(n) == IF n < StreamMaxLen THEN n + 1 ELSE StreamMaxLen

AbXadd(w) ==
    LET r == req[w] IN
    /\ r.pc = "ab_xadd"
    /\ stream' = [stream EXCEPT !.bids = StreamAppend(@)]
    /\ req' = [req EXCEPT ![w] = Finish(r, "ok")]
    /\ UNCHANGED <<gold, lbGold, stock, inventory, auction, active, clickState, now,
                   nextUid, started, hist>>

\* r.xadd raises (the append is refused or the connection drops).  The call
\* stands outside any try: the handler ends in the exception and the caller
\* gets the server's error reply, after the refund, the debit and the hset.
AbXaddFails(w) ==
    LET r == req[w] IN
    /\ r.pc = "ab_xadd"
    /\ req' = [req EXCEPT ![w] = [Finish(r, "error") EXCEPT !.fault = TRUE]]
    /\ UNCHANGED <<gold, lbGold, stock, inventory, auction, active, clickState,
                   stream, now, nextUid, started, hist>>

\* ------------------------------------------------------------ auction_buy
StartBuy(w, snap) ==
    /\ CanStart(w)
    /\ \E p \in Players, a \in KnownIds :
          req' = [req EXCEPT ![w] = [Idle EXCEPT !.op = "auction_buy",
                                                 !.pc = "bu_exists", !.pid = p,
                                                 !.aid = a]]
    /\ started' = started + 1
    /\ pre' = IF snap THEN Store ELSE pre
    /\ UNCHANGED <<gold, lbGold, stock, inventory, auction, active, clickState,
                   stream, now, nextUid, escrow, minted, listed, settled,
                   clickLog>>

BuExists(w) ==
    LET r == req[w] IN
    /\ r.pc = "bu_exists"
    /\ req' = [req EXCEPT ![w] =
                 IF auction[r.aid].exists THEN [r EXCEPT !.pc = "bu_hgetall"]
                 ELSE Finish(r, "NotFound")]
    /\ UNCHANGED <<gold, lbGold, stock, inventory, auction, active, clickState,
                   stream, now, nextUid, started, hist>>

\* hgetall; auction_data["seller"] raises KeyError on a hash without it.
BuHgetall(w) ==
    LET r == req[w]
        a == auction[r.aid]
    IN
    /\ r.pc = "bu_hgetall"
    /\ req' = [req EXCEPT ![w] =
                 IF ~(a.exists /\ a.full) THEN Finish(r, "error")
                 ELSE [r EXCEPT !.pc = "bu_hget", !.other = a.seller,
                                !.price = a.current_price, !.item = a.item_id]]
    /\ UNCHANGED <<gold, lbGold, stock, inventory, auction, active, clickState,
                   stream, now, nextUid, started, hist>>

\* buyer_gold = int(r.hget(buyer_key, "gold") or 0); if buyer_gold < price: reject
BuyFundsCheck(g, price) == IF g < price THEN "InsufficientFunds" ELSE "ok"

BuHget(w) ==
    LET r == req[w] IN
    /\ r.pc = "bu_hget"
    /\ req' = [req EXCEPT ![w] =
                 IF BuyFundsCheck(gold[r.pid], r.price) # "ok"
                 THEN Finish(r, BuyFundsCheck(gold[r.pid], r.price))
                 ELSE [r EXCEPT !.pc = "bu_debit"]]
    /\ UNCHANGED <<gold, lbGold, stock, inventory, auction, active, clickState,
                   stream, now, nextUid, started, hist>>

\* 1. hincrby buyer gold -price
BuDebit(w) ==
    LET r == req[w]
        g == gold[r.pid] - r.price
    IN
    /\ r.pc = "bu_debit"
    /\ gold' = [gold EXCEPT ![r.pid] = g]
    /\ req' = [req EXCEPT ![w] = [r EXCEPT !.pc = "bu_credit", !.g1 = g]]
    /\ UNCHANGED <<lbGold, stock, inventory, auction, active, clickState, stream,
                   now, nextUid, started, hist>>

\* (mutation) the seller is not paid
SellerCreditNothing(r) == 0

\* The amount paid to the seller: the price read.
SellerCredit(r) == r.price

\* (mutation) the buyout pays the seller and hands the standing bid back to
\* the highest bidder
BuCreditAndRefund(w) ==
    LET r == req[w]
        g == gold[r.other] + SellerCredit(r)
        hb == auction[r.aid].highest_bidder
        paid == [gold EXCEPT ![r.other] = g]
    IN
    /\ r.pc = "bu_credit"
    /\ gold' = IF hb \in Players THEN [paid EXCEPT ![hb] = @ + r.price] ELSE paid
    /\ req' = [req EXCEPT ![w] = [r EXCEPT !.pc = "bu_zadd", !.g2 = g]]
    /\ UNCHANGED <<lbGold, stock, inventory, auction, active, clickState, stream,
                   now, nextUid, started, hist>>

\* 2. hincrby seller gold price
BuCredit(w) ==
    LET r == req[w]
        g == gold[r.other] + SellerCredit(r)
    IN
    /\ r.pc = "bu_credit"
    /\ gold' = [gold EXCEPT ![r.other] = g]
    /\ req' = [req EXCEPT ![w] = [r EXCEPT !.pc = "bu_zadd", !.g2 = g]]
    /\ UNCHANGED <<lbGold, stock, inventory, auction, active, clickState, stream,
                   now, nextUid, started, hist>>

\* 2-1. zadd leaderboard:gold {buyer_id: new_buyer_gold, seller_id: new_seller_gold}
\* (one dict: with buyer = seller the later entry, the seller's, is the one kept)
BuZadd(w) ==
    LET r == req[w] IN
    /\ r.pc = "bu_zadd"
    /\ lbGold' = [lbGold EXCEPT ![r.pid] = r.g1, ![r.other] = r.g2]
    /\ req' = [req EXCEPT ![w].pc = "bu_rpush"]
    /\ UNCHANGED <<gold, stock, inventory, auction, active, clickState, stream, now,
                   nextUid, started, hist>>

\* 3. rpush inventory:<buyer> {item_id, name, fresh unique_id}
BuRpush(w) ==
    LET r == req[w] IN
    /\ r.pc = "bu_rpush"
    /\ inventory' = [inventory EXCEPT ![r.pid] =
                        Append(@, [item_id |-> r.item, uid |-> nextUid])]
    /\ nextUid' = nextUid + 1
    /\ req' = [req EXCEPT ![w].pc = "bu_delete"]
    /\ UNCHANGED <<gold, lbGold, stock, auction, active, clickState, stream, now,
                   started, hist>>

\* 4. delete auction_key
BuDelete(w) ==
    LET r == req[w] IN
    /\ r.pc = "bu_delete"
    /\ auction' = [auction EXCEPT ![r.aid] = NoAuction]
    /\ req' = [req EXCEPT ![w].pc = "bu_zrem"]
    /\ UNCHANGED <<gold, lbGold, stock, inventory, active, clickState, stream, now,
                   nextUid, started, hist>>

\*    zrem auctions:active auction_key
BuZrem(w) ==
    LET r == req[w] IN
    /\ r.pc = "bu_zrem"
    /\ active' = active \ {r.aid}
    /\ settled' = settled \cup {r.aid}
    /\ req' = [req EXCEPT ![w] = Finish(r, "ok")]
    /\ UNCHANGED <<gold, lbGold, stock, inventory, auction, clickState, stream, now,
                   nextUid, started, escrow, minted, listed, pre, clickLog>>

\* ------------------------------------------------------------------ click
Min(a, b) == IF a < b THEN a ELSE b
Max(a, b) == IF a > b THEN a ELSE b
MinOf(S) == CHOOSE x \in S : \A y \in S : x <= y

\* A key with a time to live exists while its expiry lies in the future.
Alive(exp) == exp > now

StartClick(w, snap) ==
    /\ CanStart(w)
    /\ \E p \in Players :
          req' = [req EXCEPT ![w] = [Idle EXCEPT !.op = "click", !.pc = "ck_exists",
                                                 !.pid = p]]
    /\ started' = started + 1
    /\ pre' = IF snap THEN Store ELSE pre
    /\ UNCHANGED <<gold, lbGold, stock, inventory, auction, active, clickState,
                   stream, now, nextUid, escrow, minted, listed, settled,
                   clickLog>>

\* A click as the log keeps it: now_ms, whether the window gate recorded it,
\* whether it was rewarded, and the combo it was answered with.
LogEntry(t) == [t |-> t, gate |-> FALSE, paid |-> FALSE, combo |-> 0]

\* exists player:<id>, then now_ms = int(time.time() * 1000) and the config reads
CkExists(w) ==
    LET r == req[w] IN
    /\ r.pc = "ck_exists"
    /\ req' = [req EXCEPT ![w] = [r EXCEPT !.pc = "ck_zrem", !.t = now,
                                           !.uid = Len(clickLog[r.pid]) + 1]]
    /\ clickLog' = [clickLog EXCEPT ![r.pid] = Append(@, LogEntry(now))]
    /\ UNCHANGED <<gold, lbGold, stock, inventory, auction, active, clickState,
                   stream, now, nextUid, started, escrow, minted, listed, settled,
                   pre>>

\* zremrangebyscore rate_key 0 (now_ms - window_ms)
Pruned(S, t) == {ts \in S : ts > t - WindowMs}

CkZrem(w) ==
    LET r == req[w] IN
    /\ r.pc = "ck_zrem"
    /\ rate' = [rate EXCEPT ![r.pid] = Pruned(@, r.t)]
    /\ req' = [req EXCEPT ![w].pc = "ck_zcard"]
    /\ UNCHANGED <<gold, lbGold, clicks, lbClicks, cooldown, combo, stock, inventory,
                   auction, active, stream, now, nextUid, started, hist>>

\* zcard rate_key; if current_hits >= max_hits: throttle
WindowFull(hits) == hits >= MaxHits

CkZcard(w) ==
    LET r == req[w] IN
    /\ r.pc = "ck_zcard"
    /\ req' = [req EXCEPT ![w].pc =
                 IF WindowFull(Cardinality(rate[r.pid])) THEN "ck_zrange" ELSE "ck_zadd"]
    /\ UNCHANGED <<gold, lbGold, stock, inventory, auction, active, clickState,
                   stream, now, nextUid, started, hist>>

\* zrange rate_key 0 0 withscores; retry_after_ms = max(0, oldest + window - now)
RetryAfter(S, t) == IF S = {} THEN 0 ELSE Max(0, MinOf(S) + WindowMs - t)

CkZrange(w) ==
    LET r == req[w] IN
    /\ r.pc = "ck_zrange"
    /\ req' = [req EXCEPT ![w] =
                 [r EXCEPT !.pc = "done", !.res = "RateLimited",
                           !.price = RetryAfter(rate[r.pid], r.t)]]
    /\ UNCHANGED <<gold, lbGold, stock, inventory, auction, active, clickState,
                   stream, now, nextUid, started, hist>>

\* zadd rate_key {str(now_ms): now_ms}
CkZadd(w) ==
    LET r == req[w] IN
    /\ r.pc = "ck_zadd"
    /\ rate' = [rate EXCEPT ![r.pid] = @ \cup {r.t}]
    /\ req' = [req EXCEPT ![w].pc = "ck_cd_exists"]
    /\ clickLog' = [clickLog EXCEPT ![r.pid][r.uid].gate = TRUE]
    /\ UNCHANGED <<gold, lbGold, clicks, lbClicks, cooldown, combo, stock, inventory,
                   auction, active, stream, now, nextUid, started, escrow, minted,
                   listed, settled, pre>>

\* exists cooldown_key
CkCdExists(w) ==
    LET r == req[w] IN
    /\ r.pc = "ck_cd_exists"
    /\ req' = [req EXCEPT ![w].pc =
                 IF Alive(cooldown[r.pid]) THEN "ck_pttl"
                 ELSE IF CooldownMs > 0 THEN "ck_psetex" ELSE "ck_get"]
    /\ UNCHANGED <<gold, lbGold, stock, inventory, auction, active, clickState,
                   stream, now, nextUid, started, hist>>

\* pttl cooldown_key; "cooldown_ms": ttl_ms if ttl_ms > 0 else cooldown_ms
CkPttl(w) ==
    LET r == req[w]
        ttl == IF Alive(cooldown[r.pid]) THEN cooldown[r.pid] - now ELSE -2
    IN
    /\ r.pc = "ck_pttl"
    /\ req' = [req EXCEPT ![w] =
                 [r EXCEPT !.pc = "done", !.res = "Cooldown",
                           !.price = IF ttl > 0 THEN ttl ELSE CooldownMs]]
    /\ UNCHANGED <<gold, lbGold, stock, inventory, auction, active, clickState,
                   stream, now, nextUid, started, hist>>

\* psetex cooldown_key cooldown_ms 1
CkPsetex(w) ==
    LET r == req[w] IN
    /\ r.pc = "ck_psetex"
    /\ cooldown' = [cooldown EXCEPT ![r.pid] = now + CooldownMs]
    /\ req' = [req EXCEPT ![w].pc = "ck_get"]
    /\ UNCHANGED <<gold, lbGold, clicks, lbClicks, rate, combo, stock, inventory,
                   auction, active, stream, now, nextUid, started, hist>>

\* combo = int(r.get(combo_key)) if r.get(combo_key) else 0
\* The condition's get comes first; the value's get follows when it was set.
CkGet(w) ==
    LET r == req[w] IN
    /\ r.pc = "ck_get"
    /\ req' = [req EXCEPT ![w] =
                 IF Alive(combo[r.pid].exp) THEN [r EXCEPT !.pc = "ck_get_value"]
                 ELSE [r EXCEPT !.pc = "ck_lua", !.idx = 0]]
    /\ UNCHANGED <<gold, lbGold, stock, inventory, auction, active, clickState,
                   stream, now, nextUid, started, hist>>

\* int(None) raises when the key expired between the two gets.
CkGetValue(w) ==
    LET r == req[w] IN
    /\ r.pc = "ck_get_value"
    /\ req' = [req EXCEPT ![w] =
                 IF Alive(combo[r.pid].exp)
                 THEN [r EXCEPT !.pc = "ck_lua", !.idx = combo[r.pid].val]
                 ELSE Finish(r, "error")]
    /\ UNCHANGED <<gold, lbGold, stock, inventory, auction, active, clickState,
                   stream, now, nextUid, started, hist>>

\* (mutation) the combo bonus without its cap
RewardNoCap(c, critical) ==
    LET total == BaseReward + c * 2
    IN IF critical THEN total * 2 ELSE total

\* base_reward + min(combo * 2, 50), doubled on a critical hit
Reward(c, critical) ==
    LET total == BaseReward + Min(c * 2, ComboBonusCap)
    IN IF critical THEN total * 2 ELSE total

\* The Lua reward script: HINCRBY gold, INCR clicks, ZADD both leaderboards.
CkLua(w) ==
    LET r == req[w] IN
    /\ r.pc = "ck_lua"
    /\ \E critical \in BOOLEAN :
          LET reward == Reward(r.idx, critical)
              g == gold[r.pid] + reward
              n == clicks[r.pid] + 1
          IN
          /\ gold' = [gold EXCEPT ![r.pid] = g]
          /\ clicks' = [clicks EXCEPT ![r.pid] = n]
          /\ lbGold' = [lbGold EXCEPT ![r.pid] = g]
          /\ lbClicks' = [lbClicks EXCEPT ![r.pid] = n]
          /\ req' = [req EXCEPT ![w] = [r EXCEPT !.pc = "ck_setex", !.amt = reward,
                                                 !.g1 = g, !.g2 = n,
                                                 !.other = IF critical THEN "critical"
                                                           ELSE ""]]
    /\ clickLog' = [clickLog EXCEPT ![r.pid][r.uid].paid = TRUE,
                                    ![r.pid][r.uid].combo = r.idx + 1]
    /\ UNCHANGED <<rate, cooldown, combo, stock, inventory, auction, active, stream,
                   now, nextUid, started, escrow, minted, listed, settled, pre>>

\* (mutation) the combo key is stored again with the value that was read
NewComboSame(c) == c

\* The value stored under the combo key: combo + 1.
NewCombo(c) == c + 1

\* setex combo_key 10 (combo + 1)
CkSetex(w) ==
    LET r == req[w] IN
    /\ r.pc = "ck_setex"
    /\ combo' = [combo EXCEPT ![r.pid] = [val |-> NewCombo(r.idx),
                                          exp |-> now + ComboTtl]]
    /\ req' = [req EXCEPT ![w].pc = "ck_xadd"]
    /\ UNCHANGED <<gold, lbGold, clicks, lbClicks, rate, cooldown, stock, inventory,
                   auction, active, stream, now, nextUid, started, hist>>

\* xadd stream:clicks ... maxlen=1000
CkXadd(w) ==
    LET r == req[w] IN
    /\ r.pc = "ck_xadd"
    /\ stream' = [stream EXCEPT !.clicks = StreamAppend(@)]
    /\ req' = [req EXCEPT ![w] = Finish(r, "ok")]
    /\ UNCHANGED <<gold, lbGold, stock, inventory, auction, active, clickState, now,
                   nextUid, started, hist>>

\* r.xadd raises inside the try: the except branch prints the error and the
\* handler goes on to its success reply.
CkXaddFails(w) ==
    LET r == req[w] IN
    /\ r.pc = "ck_xadd"
    /\ req' = [req EXCEPT ![w] = [Finish(r, "ok") EXCEPT !.fault = TRUE]]
    /\ UNCHANGED <<gold, lbGold, stock, inventory, auction, active, clickState,
                   stream, now, nextUid, started, hist>>

\* ------------------------------------------------------------ get_leaderboard
\* Player ids are the login clock readings (player_login), all of one length:
\* Redis orders members of equal score by their bytes, here the login order.
PlayerIndex == [p \in Players |-> IF p = "p1" THEN 1 ELSE IF p = "p2" THEN 2 ELSE 3]

\* limit = int(request.args.get("limit", 10))
Limits == {-1, 0, 1, 2, 10}

\* (mutation) the lowest score first
TopLowest(S, board) ==
    CHOOSE p \in S : \A q \in S :
        \/ board[p] < board[q]
        \/ board[p] = board[q] /\ PlayerIndex[p] >= PlayerIndex[q]

\* The member ZREVRANGE puts first: the highest score, and among equal scores
\* the greatest member.
Top(S, board) ==
    CHOOSE p \in S : \A q \in S :
        \/ board[p] > board[q]
        \/ board[p] = board[q] /\ PlayerIndex[p] >= PlayerIndex[q]

RECURSIVE RevOrder(_, _)
RevOrder(S, board) ==
    IF S = {} THEN <<>>
    ELSE <<Top(S, board)>> \o RevOrder(S \ {Top(S, board)}, board)

\* ZREVRANGE key start stop: a negative stop counts from the end of the set.
ZRevRange(board, start, stop) ==
    LET all == RevOrder(DOMAIN board, board)
        n == Len(all)
        last == IF stop < 0 THEN n + stop ELSE Min(stop, n - 1)
    IN [i \in 1..Max(0, last - start + 1) |-> all[start + i]]

\* for rank, (pid, score) in enumerate(top, start=1)
Leaderboard(board, limit) ==
    LET top == ZRevRange(board, 0, limit - 1)
    IN [i \in 1..Len(top) |->
          [rank |-> i, player_id |-> top[i], score |-> board[top[i]]]]

GetLeaderboard(w) ==
    /\ CanStart(w)
    /\ \E bt \in {"gold", "clicks"}, limit \in Limits :
          req' = [req EXCEPT ![w] =
                    [Idle EXCEPT !.op = "leaderboard", !.pc = "done", !.item = bt,
                                 !.qty = limit, !.res = "ok",
                                 !.lb = Leaderboard(IF bt = "gold" THEN lbGold
                                                    ELSE lbClicks, limit)]]
    /\ started' = started + 1
    /\ UNCHANGED <<gold, lbGold, stock, inventory, auction, active, clickState,
                   stream, now, nextUid, hist>>

\* ------------------------------------------------------- the handlers' steps
ShopSteps(w) == ShopScript(w) \/ ShopPush(w)

CreateSteps(w) ==
    AcLrange(w) \/ AcLset(w) \/ AcLrem(w) \/ AcNewId(w) \/ AcHset(w) \/ AcZadd(w)

BidChecks(w) == AbExists(w) \/ AbHgetall(w) \/ AbHget(w)

BidWrites(w) ==
    \/ AbRefund(w) \/ AbRefundZadd(w) \/ AbDebit(w) \/ AbDebitZadd(w)
    \/ AbHset(w) \/ AbXadd(w)

BuyChecks(w) == BuExists(w) \/ BuHgetall(w) \/ BuHget(w)

BuyWrites(w) ==
    \/ BuDebit(w) \/ BuCredit(w) \/ BuZadd(w) \/ BuRpush(w) \/ BuDelete(w)
    \/ BuZrem(w)

ClickSteps(w) ==
    \/ CkExists(w) \/ CkZrem(w) \/ CkZcard(w) \/ CkZrange(w) \/ CkZadd(w)
    \/ CkCdExists(w) \/ CkPttl(w) \/ CkPsetex(w) \/ CkGet(w) \/ CkGetValue(w)
    \/ CkLua(w) \/ CkSetex(w) \/ CkXadd(w)

\* ----------------------------------------------------------- specifications
\* Several buyers, one request each, racing for the last unit.
NextShop ==
    \E w \in Workers :
        \/ (req[w].pc = "idle" /\ StartShopBuy(w, FALSE))
        \/ ShopSteps(w)

SpecShop == InitLastUnit /\ [][NextShop]_vars

\* One worker: requests run one after another, each from a recorded store.
\* The clock matters only through the auction id it gives, so it moves
\* between requests and only past a tick that gave one.
NextSeq ==
    \/ (now \in listed /\ Quiescent /\ Tick)
    \/ StartShopBuy("w1", TRUE) \/ ShopSteps("w1")
    \/ StartCreate("w1", TRUE) \/ CreateSteps("w1")
    \/ StartBid("w1", TRUE) \/ BidChecks("w1") \/ BidWrites("w1")
    \/ StartBuy("w1", TRUE) \/ BuyChecks("w1") \/ BuyWrites("w1")

SpecSeq == InitTrader /\ [][NextSeq]_vars

\* Two workers interleave auction requests command by command.  Listings
\* start at prices above 0 and are taken in distinct clock ticks: the clock
\* moves on once a tick gave an id.
AuctionWorkers == {"w1", "w2"}

NextAuction ==
    \/ (now \in listed /\ Tick)
    \/ \E w \in AuctionWorkers :
          \/ (StartCreate(w, FALSE) /\ req'[w].amt > 0)
          \/ AcLrange(w) \/ AcLset(w) \/ AcLrem(w)
          \/ (now \notin listed /\ AcNewId(w))
          \/ AcHset(w) \/ AcZadd(w)
          \/ StartBid(w, FALSE) \/ BidChecks(w) \/ BidWrites(w)
          \/ StartBuy(w, FALSE) \/ BuyChecks(w) \/ BuyWrites(w)

SpecAuction == InitTrader /\ [][NextAuction]_vars

\* Clicks and leaderboard queries handled one at a time.  A request is
\* handled within one reading of the clock: the clock moves between requests.
NextClickSeq ==
    \/ (Quiescent /\ TickTo(MaxClock))
    \/ StartClick("w1", TRUE) \/ ClickSteps("w1")
    \/ GetLeaderboard("w1")

SpecClickSeq == Init /\ [][NextClickSeq]_vars

\* p1 has made VeteranClicks rewarded clicks cooldown_ms apart, none of them
\* critical, the last one at clock 0: the combo stands at VeteranClicks.
VeteranClicks == 25

VeteranReward ==
    SumOver(0..(VeteranClicks - 1),
            [c \in 0..(VeteranClicks - 1) |-> Reward(c, FALSE)])

InitVeteran ==
    /\ gold = [p \in Players |-> IF p = "p1" THEN StartGold + VeteranReward
                                             ELSE StartGold]
    /\ lbGold = gold
    /\ clicks = [p \in Players |-> IF p = "p1" THEN VeteranClicks ELSE 0]
    /\ lbClicks = clicks
    /\ stock = [i \in Items |-> InitStock]
    /\ inventory = [p \in Players |-> <<>>]
    /\ auction = [a \in AuctionIds |-> NoAuction]
    /\ active = {}
    /\ rate = [p \in Players |-> IF p = "p1" THEN {0 - CooldownMs, 0} ELSE {}]
    /\ cooldown = [p \in Players |-> IF p = "p1" THEN CooldownMs ELSE 0]
    /\ combo = [p \in Players |->
                  IF p = "p1" THEN [val |-> VeteranClicks, exp |-> ComboTtl]
                  ELSE [val |-> 0, exp |-> 0]]
    /\ stream = [clicks |-> VeteranClicks, bids |-> 0]
    /\ now = 0
    /\ req = [w \in Workers |-> Idle]
    /\ started = 0
    /\ nextUid = 1
    /\ escrow = [a \in AuctionIds |-> 0]
    /\ minted = 0
    /\ listed = {}
    /\ settled = {}
    /\ clickLog = [p \in Players |-> <<>>]
    /\ pre = Store

\* Two workers handle listing requests at any pace against the clock.
NextCreate ==
    \/ Tick
    \/ \E w \in AuctionWorkers : StartCreate(w, FALSE) \/ CreateSteps(w)

SpecCreate == InitTrader /\ [][NextCreate]_vars

\* Listings, bids and clicks handled one at a time, with appends to the two
\* streams that may fail.
NextFault ==
    \/ (Quiescent /\ Tick)
    \/ StartCreate("w1", TRUE) \/ CreateSteps("w1")
    \/ StartBid("w1", TRUE) \/ BidChecks("w1") \/ BidWrites("w1")
    \/ AbXaddFails("w1")
    \/ StartClick("w1", TRUE) \/ ClickSteps("w1")
    \/ CkXaddFails("w1")

SpecFault == InitTrader /\ [][NextFault]_vars

\* The same, late in a long combo chain.
SpecVeteran == InitVeteran /\ [][NextClickSeq]_vars

\* Clicks handled by two workers at once, command by command.
NextClick ==
    \/ (Quiescent /\ TickTo(MaxClock))
    \/ \E w \in AuctionWorkers : StartClick(w, FALSE) \/ ClickSteps(w)

SpecClick == Init /\ [][NextClick]_vars

\* The whole server from its initial state.
Next ==
    \/ Tick
    \/ \E w \in AuctionWorkers :
          \/ StartClick(w, FALSE) \/ ClickSteps(w)
          \/ StartShopBuy(w, FALSE) \/ ShopSteps(w)
          \/ StartCreate(w, FALSE) \/ CreateSteps(w)
          \/ StartBid(w, FALSE) \/ BidChecks(w) \/ BidWrites(w)
          \/ StartBuy(w, FALSE) \/ BuyChecks(w) \/ BuyWrites(w)

Spec == Init /\ [][Next]_vars

\* ------------------------------------------------------------------ claims
Issued == {w \in Workers : req[w].op = "shop_buy"}
ScriptRan(w) == req[w].op = "shop_buy" /\ req[w].pc \in {"sb_push", "done"}
ShopOk(w) == ScriptRan(w) /\ req[w].res = "ok"
ShopFailed(w) == ScriptRan(w) /\ req[w].res # "ok"

\* Every issued purchase asks for one unit of item i, which each buyer can
\* pay for, and every purchase script has run.
LastUnitRace(i) ==
    /\ Cardinality(Issued) >= 2
    /\ \A w \in Issued : req[w].item = i /\ req[w].qty = 1 /\ ScriptRan(w)
    /\ \A w \in Workers \ Issued : req[w].pc = "idle"
    /\ \A w \in Issued : gold[req[w].pid] >= Price(i)

\* C2: buyers racing for the last unit of an item (stock 1, quantity 1 each,
\* enough gold): exactly one purchase succeeds; the stock counter is never
\* negative; a buyer none of whose purchases succeeded has the gold they had.
C2_LastUnitSoldOnce ==
    /\ \A i \in Items : stock[i] >= 0
    /\ \A i \in Items :
          LastUnitRace(i) => Cardinality({w \in Issued : ShopOk(w)}) = 1
    /\ \A p \in Players :
          (\A w \in Workers : req[w].pid = p => ~ShopOk(w)) => gold[p] = StartGold

\* Three different buyers raced for the last potion: one got it, two were
\* turned away for lack of stock.
C2_Witness ==
    /\ LastUnitRace("potion_health")
    /\ Issued = Workers
    /\ Quiescent
    /\ Cardinality({req[w].pid : w \in Workers}) = 3
    /\ Cardinality({w \in Workers : ShopFailed(w) /\ req[w].res = "OutOfStock"}) = 2
    /\ stock["potion_health"] = 0

\* C1: with no request in flight, every player's gold-leaderboard score is
\* the player's gold and the click-leaderboard score is the click counter.
C1_LeaderboardMatchesLedger ==
    Quiescent =>
        \A p \in Players : lbGold[p] = gold[p] /\ lbClicks[p] = clicks[p]

\* C3: with no request in flight, the gold held for an active auction (debited
\* from bidders minus refunded to them) is current_price when a highest bidder
\* is recorded and 0 otherwise.
C3_EscrowIsHighBid ==
    Quiescent =>
        \A a \in AuctionList :
            escrow[a] = IF auction[a].highest_bidder # ""
                        THEN auction[a].current_price ELSE 0

\* ---- one request at a time: the request just answered, against the store
\* ---- recorded when it started
Done(op) == req["w1"].op = op /\ req["w1"].pc = "done"
Answer == req["w1"].res
Was == pre.auction[req["w1"].aid]

Give(p, q, amount) == IF p = q THEN amount ELSE 0

\* C4: a bid is accepted exactly when the auction exists, the amount is above
\* its current_price and the bidder's gold covers it; an accepted bid sets
\* current_price to the amount and highest_bidder to the bidder, takes the
\* amount from the bidder and gives the previous highest bidder (the bidder
\* included) the previous current_price back; nobody else's gold changes.
C4_AcceptedBid ==
    Done("auction_bid") =>
        LET r == req["w1"] IN
        /\ Answer = "ok" <=> /\ Was.exists
                             /\ r.amt > Was.current_price
                             /\ pre.gold[r.pid] >= r.amt
        /\ Answer = "ok" =>
              /\ auction[r.aid].current_price = r.amt
              /\ auction[r.aid].highest_bidder = r.pid
              /\ \A p \in Players :
                    gold[p] = pre.gold[p] - Give(p, r.pid, r.amt)
                                          + Give(p, Was.highest_bidder, Was.current_price)

\* A player outbids their own standing bid.
C4_Witness ==
    /\ Done("auction_bid")
    /\ Answer = "ok"
    /\ Was.highest_bidder = req["w1"].pid
    /\ Was.current_price > 0

BuyoutRest ==
    LET r == req["w1"] IN
    /\ inventory[r.pid] = Append(pre.inventory[r.pid],
                                 [item_id |-> Was.item_id, uid |-> nextUid - 1])
    /\ \A p \in Players \ {r.pid} : inventory[p] = pre.inventory[p]
    /\ ~auction[r.aid].exists
    /\ r.aid \in pre.active /\ Was.exists
    /\ r.aid \notin AuctionList

\* C5 as stated: a successful buyout, whoever the buyer, adds current_price
\* to the seller's gold, takes current_price from the buyer's gold, appends
\* one item with the escrowed item_id to the buyer's inventory and removes the
\* auction from the auction list.
C5_BuyoutAsStated ==
    (Done("auction_buy") /\ Answer = "ok") =>
        LET r == req["w1"] IN
        /\ gold[Was.seller] = pre.gold[Was.seller] + Was.current_price
        /\ gold[r.pid] = pre.gold[r.pid] - Was.current_price
        /\ BuyoutRest

\* C5 amended: a successful buyout changes each player's gold by
\* +current_price if they are the seller and -current_price if they are the
\* buyer (a seller buying their own listing ends with the gold they had);
\* the buyer's inventory gains one item with the escrowed item_id and the
\* auction is removed from the auction list.
C5_Buyout ==
    (Done("auction_buy") /\ Answer = "ok") =>
        LET r == req["w1"] IN
        /\ \A p \in Players :
              gold[p] = pre.gold[p] + Give(p, Was.seller, Was.current_price)
                                    - Give(p, r.pid, Was.current_price)
        /\ BuyoutRest

\* A seller bought their own listing back at a price that is not 0.
C5_Witness ==
    /\ Done("auction_buy")
    /\ Answer = "ok"
    /\ Was.seller = req["w1"].pid
    /\ Was.current_price # 0

\* C6 as stated: a buyout by a player other than the highest bidder leaves
\* the highest bidder's gold unchanged, and the gold of every player other
\* than buyer and seller is the same before and after.
C6_AsStated ==
    (Done("auction_buy") /\ Answer = "ok" /\ Was.highest_bidder \in Players
                         /\ Was.highest_bidder # req["w1"].pid) =>
        /\ gold[Was.highest_bidder] = pre.gold[Was.highest_bidder]
        /\ \A p \in Players \ {req["w1"].pid, Was.seller} : gold[p] = pre.gold[p]

\* C6 amended: a buyout by a player other than the highest bidder hands no
\* bid back: every player but the buyer has the gold they had, plus
\* current_price if they are the seller (a seller who is the highest bidder
\* on their own listing is paid as seller), and the gold taken for the
\* standing bid stays taken.
C6_NoRefundOnBuyout ==
    (Done("auction_buy") /\ Answer = "ok" /\ Was.highest_bidder # req["w1"].pid) =>
        /\ \A p \in Players \ {req["w1"].pid} :
              gold[p] = pre.gold[p] + Give(p, Was.seller, Was.current_price)
        /\ escrow[req["w1"].aid] = pre.escrow[req["w1"].aid]

\* A third player bought out an auction on which another player's bid stood.
C6_Witness ==
    /\ Done("auction_buy")
    /\ Answer = "ok"
    /\ Was.highest_bidder \notin {"", req["w1"].pid, Was.seller}
    /\ Was.current_price > 0
    /\ escrow[req["w1"].aid] = Was.current_price

\* ---- item instances and where they are held
InvSlots(p, u) == {i \in 1..Len(inventory[p]) : inventory[p][i].uid = u}
Escrows(u) == {a \in AuctionIds : auction[a].full /\ auction[a].uid = u}
Places(u) ==
    SumOver(Players, [p \in Players |-> Cardinality(InvSlots(p, u))])
        + Cardinality(Escrows(u))
HeldItems ==
    SumOver(Players, [p \in Players |->
        Cardinality({i \in 1..Len(inventory[p]) : inventory[p][i] # DelMarker})])
        + Cardinality({a \in AuctionIds : auction[a].full})

\* C7: with no request in flight, no item instance is held in two places (an
\* inventory slot or the escrow of an auction), and as many instances are
\* held as the shop has handed out: listing an item moves that item, and only
\* it, from the seller's inventory into the auction.
C7_ItemHeldOnce ==
    Quiescent =>
        /\ \A u \in 1..(nextUid - 1) : Places(u) <= 1
        /\ HeldItems = minted

BidOrBuy(w) == req[w].op \in {"auction_bid", "auction_buy"}

\* C8: a step of a bid never removes an auction record; the record of an
\* auction whose buyout has completed never exists again; a bid or buyout on
\* such an auction moves no gold and is not answered as a success (whichever
\* refusal it gets is let pass here).
C8_Step ==
    /\ \A a \in settled : ~auction'[a].exists
    /\ \A w \in Workers :
          (req[w].op = "auction_bid" /\ req'[w] # req[w] /\ auction[req[w].aid].exists)
              => auction'[req[w].aid].exists
    /\ \A w \in Workers :
          (BidOrBuy(w) /\ req[w].aid \in settled /\ req'[w] # req[w])
              => /\ gold' = gold
                 /\ req'[w].pc = "done" => req'[w].res # "ok"

C8_SettledIsTerminal == [][C8_Step]_vars

\* C9: every player's gold is a non-negative integer.
C9_GoldNonNegative == \A p \in Players : gold[p] \in Nat

Rejections == {"OutOfStock", "InsufficientFunds", "BidTooLow"}

\* The business rule that turns the request away held when it started.
MustReject ==
    LET r == req["w1"] IN
    \/ /\ r.op = "shop_buy"
       /\ \/ pre.stock[r.item] < r.qty
          \/ pre.gold[r.pid] < Price(r.item) * r.qty
    \/ /\ r.op = "auction_bid"
       /\ Was.exists
       /\ r.amt <= Was.current_price \/ pre.gold[r.pid] < r.amt
    \/ /\ r.op = "auction_buy"
       /\ Was.exists
       /\ pre.gold[r.pid] < Was.current_price

\* C10: a shop-buy with stock < quantity or gold < price*quantity, a bid with
\* amount <= current_price or bidder gold < amount, and a buyout with buyer
\* gold < current_price are rejected, and a rejected request leaves gold,
\* stock, inventories, auction records and both leaderboards as they were.
C10_RejectionAppliesNothing ==
    (req["w1"].pc = "done" /\ (MustReject \/ Answer \in Rejections)) =>
        /\ Answer \in Rejections
        /\ Store = pre

\* A buyout was refused for lack of gold on an auction with a standing bid.
C10_Witness ==
    /\ Done("auction_buy")
    /\ Answer = "InsufficientFunds"
    /\ Was.highest_bidder # ""
    /\ stream.bids > 0

\* ---- clicks handled one at a time: the click just answered and the log of
\* ---- the player's clicks so far (the last entry is the click itself)
ClicksOf == clickLog[req["w1"].pid]
Earlier == 1..(req["w1"].uid - 1)

\* Consecutive clicks are at least cooldown_ms apart.
Spaced(L) == \A i \in 2..Len(L) : L[i].t - L[i - 1].t >= CooldownMs

\* No window of window_ms ending at a click holds more than max_hits clicks.
WithinRate(L) ==
    \A i \in 1..Len(L) :
        Cardinality({j \in 1..i : L[j].t > L[i].t - WindowMs}) <= MaxHits

\* The earlier clicks the window gate let through that are still inside the
\* window of the click just answered.
GatedInWindow ==
    {j \in Earlier : ClicksOf[j].gate /\ ClicksOf[j].t > req["w1"].t - WindowMs}

C11_SpacedClicksAdmitted ==
    (Done("click") /\ Spaced(ClicksOf) /\ WithinRate(ClicksOf)) => Answer = "ok"

C11_FullWindowThrottles ==
    (Done("click") /\ Cardinality(GatedInWindow) >= MaxHits) =>
        Answer = "RateLimited" /\ req["w1"].price > 0

\* C11: every click of a sequence spaced at least cooldown_ms apart with at
\* most max_hits clicks per window is admitted, and a click arriving while
\* max_hits earlier clicks that passed the window gate are inside its window
\* is throttled with retry_after_ms > 0.
C11_AdmitAndThrottle == C11_SpacedClicksAdmitted /\ C11_FullWindowThrottles

\* ---- all clicks of a player, whoever handled them
Clock == 0..MaxClock

\* The player's clicks that read the clock in [a, a + window_ms).
InInterval(p, a) ==
    {j \in 1..Len(clickLog[p]) : a <= clickLog[p][j].t /\ clickLog[p][j].t < a + WindowMs}

\* C12: for every player and every interval of window_ms, at most max_hits
\* clicks passed the window gate, and so at most max_hits were rewarded.
C12_AtMostMaxHitsPerWindow ==
    \A p \in Players, a \in Clock :
        /\ Cardinality({j \in InInterval(p, a) : clickLog[p][j].gate}) <= MaxHits
        /\ Cardinality({j \in InInterval(p, a) : clickLog[p][j].paid}) <= MaxHits

\* C13: two rewarded clicks of one player are at least cooldown_ms apart.
C13_CooldownBetweenRewards ==
    \A p \in Players :
        \A i, j \in 1..Len(clickLog[p]) :
            (i < j /\ clickLog[p][i].paid /\ clickLog[p][j].paid) =>
                clickLog[p][j].t - clickLog[p][i].t >= CooldownMs

\* The rewarded clicks before the click just answered, and the last of them.
PaidEarlier == {j \in Earlier : ClicksOf[j].paid}
LastPaid == CHOOSE j \in PaidEarlier : \A i \in PaidEarlier : i <= j

\* The combo the click just answered was computed from.
PriorCombo ==
    IF PaidEarlier # {} /\ req["w1"].t - ClicksOf[LastPaid].t < ComboTtl
    THEN ClicksOf[LastPaid].combo
    ELSE 0

\* C14: an accepted click less than the combo lifetime (10 s) after the
\* previous accepted click returns that click's combo plus 1; an accepted
\* click with no accepted click before it, or one that comes the combo
\* lifetime or more after it, is rewarded from combo 0 and returns combo 1; a
\* rejected click leaves the combo value and its expiry as they were.
C14_ComboChain ==
    Done("click") =>
        LET r == req["w1"] IN
        /\ Answer = "ok" =>
              /\ ClicksOf[r.uid].combo = PriorCombo + 1
              /\ r.amt \in {Reward(PriorCombo, FALSE), Reward(PriorCombo, TRUE)}
              /\ combo[r.pid] = [val |-> PriorCombo + 1, exp |-> r.t + ComboTtl]
        /\ Answer # "ok" => combo = pre.combo

\* A click is accepted the combo lifetime or more after the previous accepted
\* click, with a rejected click in between, and starts again at combo 1.
C14_Witness ==
    /\ Done("click")
    /\ Answer = "ok"
    /\ PaidEarlier # {}
    /\ req["w1"].t - ClicksOf[LastPaid].t >= ComboTtl
    /\ \E j \in Earlier : j > LastPaid /\ ~ClicksOf[j].paid
    /\ ClicksOf[req["w1"].uid].combo = 1
\* The combo the key held when the request arrived (0 once it has expired).
PreCombo ==
    LET k == pre.combo[req["w1"].pid]
    IN IF k.exp > req["w1"].t THEN k.val ELSE 0

Doubled(b, x) == IF b THEN 2 * x ELSE x

\* C15: an accepted click made with prior combo c adds exactly
\* R = 10 + min(2c, 50), doubled on a critical hit, to the player's gold; R is
\* a positive integer; the click counter goes up by exactly 1; the gold
\* leaderboard score of the player equals the new gold balance.  Nobody
\* else's gold or click counter moves.
C15_ClickReward ==
    (Done("click") /\ Answer = "ok") =>
        LET r == req["w1"]
            c == PreCombo
            R == Doubled(r.other = "critical",
                         10 + (IF 2 * c < 50 THEN 2 * c ELSE 50))
        IN /\ R \in Nat \ {0}
           /\ r.amt = R
           /\ gold = [pre.gold EXCEPT ![r.pid] = @ + R]
           /\ clicks = [pre.clicks EXCEPT ![r.pid] = @ + 1]
           /\ lbGold[r.pid] = gold[r.pid]
           /\ r.g1 = gold[r.pid]
           /\ r.g2 = clicks[r.pid]

\* An accepted critical click at a prior combo past 25, where the cap binds.
C15_Witness ==
    /\ Done("click") /\ Answer = "ok"
    /\ PreCombo > 25
    /\ req["w1"].other = "critical"
    /\ req["w1"].amt = 120

\* C16: a successful shop purchase of quantity q at unit price p takes q off
\* the item's stock, p * q off the buyer's gold and appends exactly q items to
\* the buyer's inventory, for every integer quantity the handler accepts; a
\* purchase never increases the stock or the buyer's gold.
C16_PurchaseMovesQ ==
    (Done("shop_buy") /\ Answer = "ok") =>
        LET r == req["w1"]
            cost == Price(r.item) * r.qty
        IN /\ stock = [pre.stock EXCEPT ![r.item] = @ - r.qty]
           /\ gold = [pre.gold EXCEPT ![r.pid] = @ - cost]
           /\ Len(inventory[r.pid]) = Len(pre.inventory[r.pid]) + r.qty
           /\ stock[r.item] <= pre.stock[r.item]
           /\ gold[r.pid] <= pre.gold[r.pid]

\* The reply of the leaderboard query w1 has just made, and the board it read.
Reply == req["w1"].lb
Board == IF req["w1"].item = "gold" THEN lbGold ELSE lbClicks
Listed == {Reply[i].player_id : i \in 1..Len(Reply)}

\* C17 (as stated): the entries are sorted strictly descending by score, with
\* ranks 1, 2, ..., n, whatever the board holds, equal scores included.
C17_StrictlyDescending ==
    Done("leaderboard") =>
        /\ \A i \in 1..Len(Reply) : Reply[i].rank = i
        /\ \A i, j \in 1..Len(Reply) : i < j => Reply[i].score > Reply[j].score

\* C17 (amended): the entries are sorted by score from high to low, equal
\* scores next to each other, with ranks 1, 2, ..., n; every entry is a
\* different player with that player's score, and no player left out has a
\* higher score than a listed one.
C17_SortedWithRanks ==
    Done("leaderboard") =>
        /\ \A i \in 1..Len(Reply) :
              /\ Reply[i].rank = i
              /\ Reply[i].score = Board[Reply[i].player_id]
        /\ \A i, j \in 1..Len(Reply) :
              i < j => /\ Reply[i].score >= Reply[j].score
                       /\ Reply[i].player_id # Reply[j].player_id
        /\ \A p \in Players \ Listed, i \in 1..Len(Reply) :
              Board[p] <= Reply[i].score

\* A reply of three entries, the first above the other two, which are level.
C17_Witness ==
    /\ Done("leaderboard")
    /\ Len(Reply) = 3
    /\ Reply[1].score > Reply[2].score
    /\ Reply[2].score = Reply[3].score

\* ---- the two gates of click, one request at a time
\* The player's clicks up to the one just answered that passed the window gate
\* and are inside its window.
SlotsTaken ==
    {j \in 1..req["w1"].uid :
        ClicksOf[j].gate /\ ClicksOf[j].t > req["w1"].t - WindowMs}

\* A click refused by the cooldown has its timestamp in the rate window and
\* leaves gold, click counter, both leaderboards, combo and marker as they were.
C18_CooldownRejectRecorded ==
    (Done("click") /\ Answer = "Cooldown") =>
        LET r == req["w1"] IN
        /\ r.t \in rate[r.pid]
        /\ rate = [pre.rate EXCEPT ![r.pid] = Pruned(@, r.t) \cup {r.t}]
        /\ gold = pre.gold /\ lbGold = pre.lbGold
        /\ clicks = pre.clicks /\ lbClicks = pre.lbClicks
        /\ combo = pre.combo /\ cooldown = pre.cooldown

\* Every click that passed the window gate, rewarded or refused by the
\* cooldown, holds one of the window's slots while it is inside the window.
C18_EveryGatedClickCounts ==
    Done("click") =>
        Cardinality(Pruned(rate[req["w1"].pid], req["w1"].t)) = Cardinality(SlotsTaken)

\* A throttled click records no timestamp and sets no cooldown marker.
C18_ThrottledRecordsNothing ==
    (Done("click") /\ Answer = "RateLimited") =>
        LET r == req["w1"] IN
        /\ ~ClicksOf[r.uid].gate
        /\ rate = [pre.rate EXCEPT ![r.pid] = Pruned(@, r.t)]
        /\ cooldown = pre.cooldown
        /\ gold = pre.gold /\ clicks = pre.clicks /\ combo = pre.combo

\* C18: a click that passes the window gate records its timestamp in the rate
\* window even when the cooldown then refuses it (gold, click counter and
\* combo unchanged), so clicks refused by the cooldown count toward max_hits
\* for later clicks; a throttled click records no timestamp and sets no
\* cooldown marker.
C18_GateSideEffects ==
    /\ C18_CooldownRejectRecorded
    /\ C18_EveryGatedClickCounts
    /\ C18_ThrottledRecordsNothing

\* ---- a failing append to the history streams
AppendFailed == req["w1"].pc = "done" /\ req["w1"].fault

\* C19: when the append to the history stream fails, the click or bid that
\* produced the entry is neither aborted nor undone and the caller is not
\* told: the request is answered with success, the click's reward or the
\* bid's debit, leaderboard score and auction record in place.
C19_AppendFailureSwallowed ==
    AppendFailed =>
        LET r == req["w1"] IN
        /\ Answer = "ok"
        /\ r.op = "click" =>
              /\ gold[r.pid] = pre.gold[r.pid] + r.amt
              /\ lbGold[r.pid] = gold[r.pid]
              /\ clicks[r.pid] = pre.clicks[r.pid] + 1
        /\ r.op = "auction_bid" =>
              /\ auction[r.aid].current_price = r.amt
              /\ auction[r.aid].highest_bidder = r.pid
              /\ lbGold[r.pid] = gold[r.pid]
              /\ gold[r.pid] < pre.gold[r.pid] \/ pre.auction[r.aid].highest_bidder = r.pid

\* ---- auction ids
\* C20: every auction_create allocates an id different from the id of every
\* auction created so far, two listings made within the same clock
\* millisecond included, so that no listing shares or overwrites another's
\* record.
C20_FreshAuctionId ==
    [][\A w \in Workers :
          (req[w].pc = "ac_newid" /\ req'[w].pc = "ac_hset")
              => req'[w].aid \notin listed]_vars

\* ---- concurrent buyouts
\* The workers whose buyout of auction a has debited its buyer.
BuyersDebited(a) ==
    {w \in AuctionWorkers :
        /\ req[w].op = "auction_buy" /\ req[w].aid = a
        /\ \/ req[w].pc \in {"bu_credit", "bu_zadd", "bu_rpush", "bu_delete", "bu_zrem"}
           \/ req[w].pc = "done" /\ req[w].res = "ok"}

\* The workers whose buyout of auction a has been answered with success.
BuyoutsSucceeded(a) ==
    {w \in AuctionWorkers :
        /\ req[w].op = "auction_buy" /\ req[w].aid = a
        /\ req[w].pc = "done" /\ req[w].res = "ok"}

\* C21: for every auction and every interleaving of concurrent buyout
\* requests at most one buyout succeeds: at most one buyer is debited, and so
\* the seller is credited at most once and at most one item is created from
\* the escrowed one.
C21_AtMostOneBuyout ==
    \A a \in AuctionIds :
        /\ Cardinality(BuyersDebited(a)) <= 1
        /\ Cardinality(BuyoutsSucceeded(a)) <= 1

\* ---- the price of an auction
\* Some worker's bid writes its amount to auction a in this step.
BidWritten(a) ==
    \E w \in Workers :
        req[w].pc = "ab_hset" /\ req'[w].pc = "ab_xadd" /\ req[w].aid = a

\* C22: while an auction's record exists its current_price never decreases,
\* and the write of an accepted bid leaves current_price strictly above the
\* value it had immediately before the write, however concurrent bids on the
\* auction interleave.
C22_PriceNeverDecreases ==
    [][\A a \in AuctionIds :
          (auction[a].exists /\ auction'[a].exists) =>
              /\ auction'[a].current_price >= auction[a].current_price
              /\ BidWritten(a) =>
                    auction'[a].current_price > auction[a].current_price]_vars

====
